---- MODULE Spec2Model ----
(***************************************************************************)
(* A model of the deep-translator adapters: BaseTranslator (base.py),      *)
(* GoogleTranslator (google.py) and ReversoTranslator (reverso.py).        *)
(*                                                                         *)
(* State: each adapter instance's class, _source, _target and request      *)
(* template (_url_params / _payload), and the call frame of each calling   *)
(* thread (the local variables of translate and of the batch helpers).     *)
(* The backend is the environment: every send draws its outcome from the   *)
(* outcomes a transport can produce.                                       *)
(***************************************************************************)
EXTENDS Integers, Sequences, FiniteSets, TLC

VARIABLES cls, source, target, url_params, payload, frame, batch, ctor

vars == <<cls, source, target, url_params, payload, frame, batch, ctor>>

(***************************************************************************)
(* Bounds of the model.                                                    *)
(***************************************************************************)
\* Longest list handed to translate_batch / translate_words.
MaxBatch == 2

(***************************************************************************)
(* Program constants.                                                      *)
(***************************************************************************)
\* is_input_valid(text, max_chars=5000) in both adapters.
max_chars == 5000
\* ReversoTranslator.translate: max_retries = 3
max_retries == 3
\* ReversoTranslator.translate: retry_delay = 1
initial_retry_delay == 1
\* HTTP status that maps to TooManyRequests.
TOO_MANY_REQUESTS == 429

(***************************************************************************)
(* Python strings.  A str is kept run-length encoded, as the sequence of   *)
(* its maximal runs of equal characters, so that texts longer than         *)
(* max_chars are ordinary values.  A value that is not a str is            *)
(* NotAString.                                                             *)
(***************************************************************************)
Run(c, n) == [ch |-> c, n |-> n]
Str(runs) == [isStr |-> TRUE, runs |-> runs]
NotAString == [isStr |-> FALSE, runs |-> <<>>]
EmptyStr == Str(<<>>)

RECURSIVE Sum(_)
Sum(runs) == IF runs = <<>> THEN 0 ELSE Head(runs).n + Sum(Tail(runs))

\* len(text)
len(text) == Sum(text.runs)

IsSpace(c) == c = " "

\* str.strip(): leading and trailing whitespace removed.
lstrip(runs) == IF runs # <<>> /\ IsSpace(Head(runs).ch) THEN Tail(runs) ELSE runs
rstrip(runs) ==
    IF runs # <<>> /\ IsSpace(runs[Len(runs)].ch)
    THEN SubSeq(runs, 1, Len(runs) - 1)
    ELSE runs
strip(text) == Str(rstrip(lstrip(text.runs)))

(***************************************************************************)
(* deep_translator.validate, as the specification describes it.            *)
(***************************************************************************)
\* isValid(text, maxChars): a str no longer than the ceiling.
is_input_valid(text, maxc) == text.isStr /\ len(text) <= maxc
\* isEmpty(text): empty or whitespace-only.
is_empty(text) == strip(text) = EmptyStr
\* request_failed(status_code): any status outside 2xx.
request_failed(status_code) == status_code < 200 \/ status_code > 299

(***************************************************************************)
(* Language registries.  A registry is a function from names to codes.     *)
(***************************************************************************)
\* deep_translator.constants.GOOGLE_LANGUAGES_TO_CODES (a sample of it).
GOOGLE_LANGUAGES_TO_CODES ==
    [n \in {"english", "french", "german"} |->
        CASE n = "english" -> "en" [] n = "french" -> "fr" [] OTHER -> "de"]

\* ReversoTranslator.supported_languages
supported_languages ==
    { "ar", "zh", "cs", "nl", "en", "fr", "de", "el", "he",
      "hi", "hu", "it", "ja", "ko", "fa", "pl", "pt", "ro",
      "ru", "sk", "es", "sv", "th", "tr", "uk" }

\* languages={lang: lang for lang in self.supported_languages}
ReversoLanguages == [l \in supported_languages |-> l]

Values(languages) == { languages[k] : k \in DOMAIN languages }

Registry(c) ==
    IF c = "GoogleTranslator" THEN GOOGLE_LANGUAGES_TO_CODES ELSE ReversoLanguages

\* The result of a call that can raise: an exception name, or "" and a value.
Ok(v) == [exc |-> "", val |-> v]
Raise(e) == [exc |-> e, val |-> ""]

\* A resolution that yields a registry name as it is, unmapped.
MapLanguageKeepsName(languages, language) ==
    IF language \in Values(languages) \/ language = "auto" THEN Ok(language)
    ELSE IF language \in DOMAIN languages THEN Ok(language)
    ELSE Raise("LanguageNotSupportedException")

\* BaseTranslator._map_language_to_code, for one language.
map_language_to_code(languages, language) ==
    IF language \in Values(languages) \/ language = "auto" THEN Ok(language)
    ELSE IF language \in DOMAIN languages THEN Ok(languages[language])
    ELSE Raise("LanguageNotSupportedException")

\* ReversoTranslator.validate_language
validate_language(language) ==
    IF language # "auto" /\ language \notin supported_languages
    THEN Raise("LanguageNotSupportedException")
    ELSE Ok(language)

\* BaseTranslator.__init__: the exception it raises, or the resolved pair.
BaseInit(languages, src, tgt) ==
    IF src = "" THEN Raise("InvalidSourceOrTargetLanguage")
    ELSE IF tgt = "" THEN Raise("InvalidSourceOrTargetLanguage")
    ELSE LET s == map_language_to_code(languages, src)
             t == map_language_to_code(languages, tgt)
         IN  IF s.exc # "" THEN s
             ELSE IF t.exc # "" THEN t
             ELSE Ok(<<s.val, t.val>>)

\* GoogleTranslator.__init__
GoogleInit(src, tgt) == BaseInit(GOOGLE_LANGUAGES_TO_CODES, src, tgt)

\* ReversoTranslator.__init__
ReversoInit(src, tgt) ==
    IF validate_language(src).exc # "" THEN validate_language(src)
    ELSE IF validate_language(tgt).exc # "" THEN validate_language(tgt)
    ELSE BaseInit(ReversoLanguages, src, tgt)

Construct(c, src, tgt) ==
    IF c = "GoogleTranslator" THEN GoogleInit(src, tgt) ELSE ReversoInit(src, tgt)

(***************************************************************************)
(* Values a call returns, and exceptions it raises.                        *)
(***************************************************************************)
V_None == [t |-> "None"]
V_Str(text) == [t |-> "str", str |-> text]
\* The n-th candidate translation the backend gives for the text `of`.
V_Tr(of, n) == [t |-> "translation", of |-> of, n |-> n]
V_List(items) == [t |-> "list", items |-> items]

Ret(v) == [exc |-> "", arg |-> 0, val |-> v]
Exc(e) == [exc |-> e, arg |-> 0, val |-> V_None]
ExcArg(e, a) == [exc |-> e, arg |-> a, val |-> V_None]

(***************************************************************************)
(* Adapter instances, calling threads, and the inputs they draw.           *)
(***************************************************************************)
Instances == {"a1", "a2"}
Threads == {"t1", "t2"}
Classes == {"GoogleTranslator", "ReversoTranslator"}

T_a == Str(<<Run("a", 1)>>)
T_b == Str(<<Run("b", 1)>>)
T_padded == Str(<<Run(" ", 1), Run("b", 1), Run(" ", 1)>>)
T_blank == Str(<<Run(" ", 1)>>)
T_long == Str(<<Run("a", max_chars + 1)>>)

Texts == {EmptyStr, T_blank, T_a, T_padded, T_long, NotAString}
BatchTexts == {T_a, T_padded, T_long}
\* Under SpecConc each caller has a text of its own.
ConcText == [t \in Threads |-> IF t = "t1" THEN T_a ELSE T_b]

CtorLangs == {"", "auto", "en", "french", "klingon"}
SetLangs == {"en", "klingon"}
ConcLangs == {"de"}

RECURSIVE SeqsUpTo(_, _)
SeqsUpTo(S, n) ==
    IF n = 0 THEN {<<>>}
    ELSE LET shorter == SeqsUpTo(S, n - 1)
         IN  shorter \cup { Append(q, x) : q \in shorter, x \in S }

Batches == SeqsUpTo(BatchTexts, MaxBatch)

(***************************************************************************)
(* The backend.  A send either fails at the connection level or yields a   *)
(* response: a status and, for a success status, a body.                   *)
(***************************************************************************)
ConnectionFailures == {"ConnectionError", "Timeout", "ChunkedEncodingError"}
Statuses == {200, TOO_MANY_REQUESTS, 500}
\* Reverso bodies: not JSON, JSON without the key, or 0..2 candidates.
CandidateBodies == {"0", "1", "2"}
Bodies == {"not-json", "no-key", "0", "1", "2"}
\* Google bodies: the result element is there, or it is not.
Pages == {"element", "no-element"}

\* An outcome of one send.
Fail(e) == [kind |-> "fail", e |-> e, status |-> 0, body |-> ""]
Reply(status, body) == [kind |-> "reply", e |-> "", status |-> status, body |-> body]

Failures == { Fail(e) : e \in ConnectionFailures }
\* What requests.get can do (GoogleTranslator).
GoogleOutcomes ==
    Failures \cup { Reply(status, page) : status \in Statuses, page \in Pages }
\* What self._session.post can do (ReversoTranslator).
ReversoOutcomes ==
    Failures \cup { Reply(status, body) : status \in Statuses, body \in Bodies }

Candidates(body, of) ==
    CASE body = "0" -> <<>>
      [] body = "1" -> <<V_Tr(of, 1)>>
      [] OTHER      -> <<V_Tr(of, 1), V_Tr(of, 2)>>

(***************************************************************************)
(* Request templates.                                                      *)
(***************************************************************************)
None == <<>>
Some(v) == <<v>>

\* BaseTranslator.__init__: self._url_params = url_params (no extra params).
EmptyParams == [sl |-> None, tl |-> None, q |-> None]
\* ReversoTranslator.__init__: self._payload
NewPayload(src, tgt) == [input |-> EmptyStr, from |-> src, to |-> tgt]
\* A GoogleTranslator has no _payload.
NoPayload == NewPayload("", "")

NoReq == None

\* One template shared by every instance, as a class attribute would be.
class_attribute(i) == "a1"

\* The object self._url_params / self._payload names: one per instance, made
\* in __init__.
template_of(i) == i

(***************************************************************************)
(* Call frames.                                                            *)
(***************************************************************************)
IdleFrame ==
    [pc |-> "idle", op |-> "", self |-> "a1", arg |-> EmptyStr, text |-> EmptyStr,
     return_all |-> FALSE, same |-> FALSE, attempt |-> 0, retry_delay |-> 0,
     slept |-> <<>>, sent |-> 0, req |-> NoReq, outs |-> <<>>, raced |-> FALSE,
     result |-> Ret(V_None)]

NoBatch == [state |-> "off", items |-> <<>>, arr |-> <<>>, ncalls |-> 0,
            raised |-> <<>>, return_all |-> FALSE]

NoCtor == [cls |-> "", source |-> "", target |-> "", result |-> Raise("")]

CallFrame(i, text, ra) ==
    [IdleFrame EXCEPT !.op = "translate", !.self = i, !.arg = text, !.text = text,
                      !.return_all = ra, !.same = (source[i] = target[i])]

Done(f, r) == [f EXCEPT !.pc = "done", !.result = r]

\* BaseTranslator._same_source_target
same_source_target(i) == source[i] = target[i]

\* GoogleTranslator.translate up to its first write to _url_params.
GoogleEnter(i, text, ra) ==
    LET f == CallFrame(i, text, ra) IN
    IF is_input_valid(text, max_chars)
    THEN LET s == strip(text) IN
         IF same_source_target(i) \/ is_empty(s)
         THEN Done([f EXCEPT !.text = s], Ret(V_Str(s)))
         ELSE [f EXCEPT !.text = s, !.pc = "tl"]
    ELSE \* the body of the if is skipped: the function ends, returning None
         Done(f, Ret(V_None))

\* ReversoTranslator.translate up to its first write to _payload.
ReversoEnter(i, text, ra) ==
    LET f == CallFrame(i, text, ra) IN
    IF ~is_input_valid(text, max_chars) THEN Done(f, Exc("ValueError"))
    ELSE IF same_source_target(i) \/ is_empty(text) THEN Done(f, Ret(V_Str(text)))
    ELSE [f EXCEPT !.pc = "input", !.retry_delay = initial_retry_delay]

Enter(i, text, ra) ==
    IF cls[i] = "GoogleTranslator" THEN GoogleEnter(i, text, ra)
    ELSE ReversoEnter(i, text, ra)

InCall(u) == frame[u].pc # "idle"

\* Thread t's frame becomes f; every other call in progress on instance i has
\* now run alongside another operation on i.
Touch(t, i, f) ==
    [u \in Threads |->
        IF u = t THEN f
        ELSE IF InCall(u) /\ frame[u].self = i THEN [frame[u] EXCEPT !.raced = TRUE]
        ELSE frame[u]]

(***************************************************************************)
(* Construction and the property setters.                                  *)
(***************************************************************************)
\* t = Class(source=src, target=tgt), bound to slot i.  When the constructor
\* raises, the slot keeps the adapter it held.
NewAdapter(t, i, c, src, tgt) ==
    /\ frame[t].pc = "idle"
    /\ \A u \in Threads : InCall(u) => frame[u].self # i
    /\ LET r == Construct(c, src, tgt) IN
       /\ ctor' = [cls |-> c, source |-> src, target |-> tgt, result |-> r]
       /\ frame' = [frame EXCEPT ![t] = [IdleFrame EXCEPT !.pc = "done",
                                                          !.op = "__init__",
                                                          !.self = i]]
       /\ IF r.exc = ""
          THEN /\ cls' = [cls EXCEPT ![i] = c]
               /\ source' = [source EXCEPT ![i] = r.val[1]]
               /\ target' = [target EXCEPT ![i] = r.val[2]]
               /\ url_params' = [url_params EXCEPT ![i] = EmptyParams]
               /\ payload' = [payload EXCEPT ![i] =
                                 IF c = "ReversoTranslator"
                                 THEN NewPayload(r.val[1], r.val[2])
                                 ELSE NoPayload]
          ELSE UNCHANGED <<cls, source, target, url_params, payload>>
    /\ UNCHANGED batch

\* BaseTranslator.source setter: self._source = lang
SetSource(t, i, lang) ==
    /\ frame[t].pc = "idle"
    /\ source' = [source EXCEPT ![i] = lang]
    /\ frame' = Touch(t, i, frame[t])
    /\ UNCHANGED <<cls, target, url_params, payload, batch, ctor>>

\* BaseTranslator.target setter: self._target = lang
SetTarget(t, i, lang) ==
    /\ frame[t].pc = "idle"
    /\ target' = [target EXCEPT ![i] = lang]
    /\ frame' = Touch(t, i, frame[t])
    /\ UNCHANGED <<cls, source, url_params, payload, batch, ctor>>

(***************************************************************************)
(* translate                                                               *)
(***************************************************************************)
TranslateCall(t, i, text, ra) ==
    /\ frame[t].pc = "idle"
    /\ frame' = [frame EXCEPT ![t] = Enter(i, text, ra)]
    /\ UNCHANGED <<cls, source, target, url_params, payload, batch, ctor>>

\* GoogleTranslator.translate: self._url_params["tl"] = self._target
WriteTl(t) ==
    LET f == frame[t] IN
    /\ f.pc = "tl"
    /\ url_params' = [url_params EXCEPT
                         ![template_of(f.self)].tl = Some(target[f.self])]
    /\ frame' = Touch(t, f.self, [f EXCEPT !.pc = "sl"])
    /\ UNCHANGED <<cls, source, target, payload, batch, ctor>>

\* self._url_params["sl"] = self._source
WriteSl(t) ==
    LET f == frame[t] IN
    /\ f.pc = "sl"
    /\ url_params' = [url_params EXCEPT
                         ![template_of(f.self)].sl = Some(source[f.self])]
    /\ frame' = Touch(t, f.self, [f EXCEPT !.pc = "q"])
    /\ UNCHANGED <<cls, source, target, payload, batch, ctor>>

\* The text GoogleTranslator.translate stores under payload_key.
QueryText(f) == Some(f.text)

\* if self.payload_key: self._url_params[self.payload_key] = text
WriteQ(t) ==
    LET f == frame[t] IN
    /\ f.pc = "q"
    /\ url_params' = [url_params EXCEPT
                         ![template_of(f.self)].q = QueryText(f)]
    /\ frame' = Touch(t, f.self, [f EXCEPT !.pc = "get"])
    /\ UNCHANGED <<cls, source, target, payload, batch, ctor>>

\* What GoogleTranslator.translate does with a response.
GoogleResult(status, page, q) ==
    IF status = TOO_MANY_REQUESTS THEN Exc("TooManyRequests")
    ELSE IF request_failed(status) THEN Exc("RequestError")
    ELSE IF page = "no-element" THEN Exc("TranslationNotFound")
    ELSE Ret(V_Tr(q, 1))

\* requests.get(self._base_url, params=self._url_params, proxies=self.proxies)
\* and the rest of GoogleTranslator.translate.
Get(t, outcomes) ==
    LET f == frame[t]
        p == url_params[template_of(f.self)]
        sent(o) == [f EXCEPT !.sent = f.sent + 1, !.outs = Append(f.outs, o),
                             !.req = Some([text |-> p.q[1], from |-> p.sl[1],
                                           to |-> p.tl[1]])]
    IN
    /\ f.pc = "get"
    /\ \E o \in outcomes :
          frame' = [frame EXCEPT ![t] =
                       IF o.kind = "fail"
                       THEN \* no handler: the transport's exception propagates
                            Done(sent(o), Exc(o.e))
                       ELSE Done(sent(o), GoogleResult(o.status, o.body, p.q[1]))]
    /\ UNCHANGED <<cls, source, target, url_params, payload, batch, ctor>>

\* ReversoTranslator.translate: self._payload["input"] = text
WriteInput(t) ==
    LET f == frame[t] IN
    /\ f.pc = "input"
    /\ payload' = [payload EXCEPT ![template_of(f.self)].input = f.text]
    /\ frame' = Touch(t, f.self, [f EXCEPT !.pc = "from"])
    /\ UNCHANGED <<cls, source, target, url_params, batch, ctor>>

\* self._payload["from"] = self._source
WriteFrom(t) ==
    LET f == frame[t] IN
    /\ f.pc = "from"
    /\ payload' = [payload EXCEPT ![template_of(f.self)].from = source[f.self]]
    /\ frame' = Touch(t, f.self, [f EXCEPT !.pc = "to"])
    /\ UNCHANGED <<cls, source, target, url_params, batch, ctor>>

\* self._payload["to"] = self._target
WriteTo(t) ==
    LET f == frame[t] IN
    /\ f.pc = "to"
    /\ payload' = [payload EXCEPT ![template_of(f.self)].to = target[f.self]]
    /\ frame' = Touch(t, f.self, [f EXCEPT !.pc = "post"])
    /\ UNCHANGED <<cls, source, target, url_params, batch, ctor>>

\* The try block with the two status tests in the other order.
ReversoResultStatusOrderSwapped(status, body, ra, of) ==
    IF request_failed(status) THEN ExcArg("RequestError", status)
    ELSE IF status = TOO_MANY_REQUESTS THEN Exc("TooManyRequests")
    ELSE IF body = "not-json" THEN Exc("JSONDecodeError")
    ELSE IF body = "no-key" THEN Exc("TranslationNotFound")
    ELSE LET translations == Candidates(body, of) IN
         IF ra THEN Ret(V_List(translations))
         ELSE IF translations = <<>> THEN Exc("IndexError")
         ELSE Ret(translations[1])

\* The try block without the return_all branch.
ReversoResultIgnoresReturnAll(status, body, ra, of) ==
    IF status = TOO_MANY_REQUESTS THEN Exc("TooManyRequests")
    ELSE IF request_failed(status) THEN ExcArg("RequestError", status)
    ELSE IF body = "not-json" THEN Exc("JSONDecodeError")
    ELSE IF body = "no-key" THEN Exc("TranslationNotFound")
    ELSE LET translations == Candidates(body, of) IN
         IF translations = <<>> THEN Exc("IndexError")
         ELSE Ret(translations[1])

\* What the try block of ReversoTranslator.translate does with a response.
ReversoResult(status, body, ra, of) ==
    IF status = TOO_MANY_REQUESTS THEN Exc("TooManyRequests")
    ELSE IF request_failed(status) THEN ExcArg("RequestError", status)
    ELSE IF body = "not-json" THEN Exc("JSONDecodeError")
    ELSE IF body = "no-key" THEN Exc("TranslationNotFound")
    ELSE LET translations == Candidates(body, of) IN
         IF ra THEN Ret(V_List(translations))
         ELSE IF translations = <<>> THEN Exc("IndexError")
         ELSE Ret(translations[1])

\* A handler that also sleeps and retries after the last attempt.
RetriesOnLastAttempt(attempt) == attempt < max_retries

\* Whether the handler of a connection-level failure retries after `attempt`.
ShouldRetry(attempt) == attempt < max_retries - 1

\* One pass of the retry loop: self._session.post(...), then the try block
\* or the handler of a connection-level failure.
Post(t, outcomes) ==
    LET f == frame[t]
        p == payload[template_of(f.self)]
        sent(o) == [f EXCEPT !.sent = f.sent + 1, !.outs = Append(f.outs, o),
                             !.req = Some([text |-> p.input, from |-> p.from,
                                           to |-> p.to])]
    IN
    /\ f.pc = "post"
    /\ \E o \in outcomes :
          frame' = [frame EXCEPT ![t] =
                       IF o.kind = "fail"
                       THEN IF ShouldRetry(f.attempt)
                            THEN [sent(o) EXCEPT !.pc = "sleep"]
                            ELSE \* raise: the exception just caught
                                 Done(sent(o), Exc(o.e))
                       ELSE Done(sent(o), ReversoResult(o.status, o.body,
                                                        f.return_all, p.input))]
    /\ UNCHANGED <<cls, source, target, url_params, payload, batch, ctor>>

\* A backoff that never grows.
ConstantDelay(retry_delay) == retry_delay

\* The delay after the one just slept: retry_delay *= 2
NextDelay(retry_delay) == retry_delay * 2

\* time.sleep(retry_delay); retry_delay *= 2; and the loop's next attempt.
Sleep(t) ==
    LET f == frame[t] IN
    /\ f.pc = "sleep"
    /\ frame' = [frame EXCEPT ![t] =
                    [f EXCEPT !.pc = "post",
                              !.slept = Append(f.slept, f.retry_delay),
                              !.retry_delay = NextDelay(f.retry_delay),
                              !.attempt = f.attempt + 1]]
    /\ UNCHANGED <<cls, source, target, url_params, payload, batch, ctor>>

\* The call returns (or its exception reaches the caller): the frame is gone.
Return(t) ==
    /\ frame[t].pc = "done"
    /\ batch[t].state # "running"
    /\ frame' = [frame EXCEPT ![t] = IdleFrame]
    /\ batch' = [batch EXCEPT ![t] = NoBatch]
    /\ ctor' = IF frame[t].op = "__init__" THEN NoCtor ELSE ctor
    /\ UNCHANGED <<cls, source, target, url_params, payload>>

(***************************************************************************)
(* BaseTranslator._translate_batch (GoogleTranslator.translate_batch) and   *)
(* ReversoTranslator.translate_words.                                      *)
(***************************************************************************)
BatchOp(i) ==
    IF cls[i] = "GoogleTranslator" THEN "translate_batch" ELSE "translate_words"

\* The exception an empty list is rejected with.
EmptyBatchError(i) ==
    IF cls[i] = "GoogleTranslator" THEN "Exception" ELSE "ValueError"

BatchFrame(i, r) ==
    [IdleFrame EXCEPT !.pc = "done", !.op = BatchOp(i), !.self = i, !.result = r]

\* A loop body that puts each translation in front.
PrependTranslated(arr, translated) == <<translated>> \o arr

\* The list after the loop body has handled one translation.
AppendTranslated(arr, translated) == Append(arr, translated)

\* Whether the loop goes on after a translate call that ended with r: an
\* exception leaves the loop, and the function.
LoopContinues(r) == r.exc = ""

\* The call and its guard: if not batch: raise ...; otherwise the first
\* iteration's call of self.translate.
BatchCall(t, i, items, ra) ==
    /\ frame[t].pc = "idle"
    /\ IF items = <<>>
       THEN /\ frame' = [frame EXCEPT ![t] = BatchFrame(i, Exc(EmptyBatchError(i)))]
            /\ batch' = [batch EXCEPT ![t] =
                            [NoBatch EXCEPT !.state = "done", !.return_all = ra]]
       ELSE /\ frame' = [frame EXCEPT ![t] = Enter(i, items[1], ra)]
            /\ batch' = [batch EXCEPT ![t] =
                            [state |-> "running", items |-> items, arr |-> <<>>,
                             ncalls |-> 1, raised |-> <<>>, return_all |-> ra]]
    /\ UNCHANGED <<cls, source, target, url_params, payload, ctor>>

\* A translate call of the loop has ended: its exception leaves the loop, or
\* its result is appended and the loop goes on, or returns arr at the end.
BatchNext(t) ==
    LET f == frame[t]
        b == batch[t]
        i == f.self
    IN
    /\ f.pc = "done"
    /\ b.state = "running"
    /\ IF ~LoopContinues(f.result)
       THEN /\ frame' = [frame EXCEPT ![t] = BatchFrame(i, f.result)]
            /\ batch' = [batch EXCEPT ![t].state = "done",
                                      ![t].raised = Append(b.raised, f.result.exc)]
       ELSE LET arr == AppendTranslated(b.arr, f.result.val) IN
            IF b.ncalls < Len(b.items)
            THEN /\ frame' = [frame EXCEPT ![t] =
                                 Enter(i, b.items[b.ncalls + 1], b.return_all)]
                 /\ batch' = [batch EXCEPT ![t].arr = arr,
                                           ![t].ncalls = b.ncalls + 1]
            ELSE /\ frame' = [frame EXCEPT ![t] = BatchFrame(i, Ret(V_List(arr)))]
                 /\ batch' = [batch EXCEPT ![t].arr = arr, ![t].state = "done"]
    /\ UNCHANGED <<cls, source, target, url_params, payload, ctor>>

(***************************************************************************)
(* Specifications.                                                         *)
(*                                                                         *)
(* Spec: one caller (t1) drives one adapter (a1) through every operation.  *)
(* SpecConc: two callers translate on two adapters at once, and may set    *)
(* the languages between their calls.                                      *)
(***************************************************************************)
Caller == "t1"
Adapter == "a1"

Built(c, src, tgt) ==
    LET r == Construct(c, src, tgt) IN
    [cls |-> c, source |-> r.val[1], target |-> r.val[2],
     url_params |-> EmptyParams,
     payload |-> IF c = "ReversoTranslator" THEN NewPayload(r.val[1], r.val[2])
                 ELSE NoPayload]

InitWith(adapters) ==
    /\ cls = [i \in Instances |-> adapters[i].cls]
    /\ source = [i \in Instances |-> adapters[i].source]
    /\ target = [i \in Instances |-> adapters[i].target]
    /\ url_params = [i \in Instances |-> adapters[i].url_params]
    /\ payload = [i \in Instances |-> adapters[i].payload]
    /\ frame = [t \in Threads |-> IdleFrame]
    /\ batch = [t \in Threads |-> NoBatch]
    /\ ctor = NoCtor

\* a1: any adapter whose construction succeeds; a2: ReversoTranslator().
Init ==
    \E c \in Classes, src \in CtorLangs, tgt \in CtorLangs :
        /\ Construct(c, src, tgt).exc = ""
        /\ InitWith([i \in Instances |->
                        IF i = Adapter THEN Built(c, src, tgt)
                        ELSE Built("ReversoTranslator", "en", "en")])

Next ==
    \/ \E c \in Classes, src \in CtorLangs, tgt \in CtorLangs :
          NewAdapter(Caller, Adapter, c, src, tgt)
    \/ \E lang \in SetLangs : SetSource(Caller, Adapter, lang)
    \/ \E lang \in SetLangs : SetTarget(Caller, Adapter, lang)
    \/ \E text \in Texts, ra \in BOOLEAN : TranslateCall(Caller, Adapter, text, ra)
    \/ \E items \in Batches, ra \in BOOLEAN : BatchCall(Caller, Adapter, items, ra)
    \/ WriteTl(Caller)
    \/ WriteSl(Caller)
    \/ WriteQ(Caller)
    \/ Get(Caller, GoogleOutcomes)
    \/ WriteInput(Caller)
    \/ WriteFrom(Caller)
    \/ WriteTo(Caller)
    \/ Post(Caller, ReversoOutcomes)
    \/ Sleep(Caller)
    \/ BatchNext(Caller)
    \/ Return(Caller)

Spec == Init /\ [][Next]_vars

\* Under SpecConc a send is answered with a translation, or fails.
ConcGoogleOutcomes == {Reply(200, "element"), Fail("ConnectionError")}
ConcReversoOutcomes == {Reply(200, "1"), Fail("ConnectionError")}

\* Two adapters of one class, each built with source "en" and target "fr".
InitConc ==
    \E c \in Classes : InitWith([i \in Instances |-> Built(c, "en", "fr")])

NextConc ==
    \E t \in Threads :
        \/ \E i \in Instances, lang \in ConcLangs : SetTarget(t, i, lang)
        \/ \E i \in Instances : TranslateCall(t, i, ConcText[t], FALSE)
        \/ WriteTl(t)
        \/ WriteSl(t)
        \/ WriteQ(t)
        \/ Get(t, ConcGoogleOutcomes)
        \/ WriteInput(t)
        \/ WriteFrom(t)
        \/ WriteTo(t)
        \/ Post(t, ConcReversoOutcomes)
        \/ Sleep(t)
        \/ Return(t)

SpecConc == InitConc /\ [][NextConc]_vars

(***************************************************************************)
(* Properties of the adapters (C1..C10).                                   *)
(***************************************************************************)
\* A translate call of thread t has ended and its result is in the frame.
TranslateDone(t) == frame[t].pc = "done" /\ frame[t].op = "translate"

\* A translate call of a ReversoTranslator, at any point.
ReversoCall(t) ==
    frame[t].op = "translate" /\ cls[frame[t].self] = "ReversoTranslator"

IsConnFailure(o) == o.kind = "fail"
IsSuccessStatus(status) == status >= 200 /\ status <= 299

\* C1: in both adapters, translate of a valid text returns text.strip() and
\* sends nothing when source equals target or the text is blank.
C1_ShortCircuitReturnsTrimmed ==
    \A t \in Threads :
        LET f == frame[t] IN
        (/\ TranslateDone(t)
         /\ f.arg.isStr /\ len(f.arg) <= max_chars
         /\ (f.same \/ strip(f.arg) = EmptyStr))
        => /\ f.result = Ret(V_Str(strip(f.arg)))
           /\ f.sent = 0

\* C2: ReversoTranslator.translate sends at most 3 times, every send but the
\* last one having failed at the connection level; a reply ends the call
\* with that reply's result (a translation is returned after exactly as many
\* sends as attempts were needed), and a third connection failure is raised.
C2_RetryOnlyOnConnectionFailure ==
    \A t \in Threads :
        LET f == frame[t]
            k == Len(f.outs)
        IN
        ReversoCall(t) =>
            /\ f.sent <= max_retries
            /\ f.sent = k
            /\ \A j \in 1..(k - 1) : IsConnFailure(f.outs[j])
            /\ (f.pc = "post" /\ k > 0) => IsConnFailure(f.outs[k])
            /\ (f.pc = "sleep") => IsConnFailure(f.outs[k]) /\ k < max_retries
            /\ (f.pc = "done" /\ k > 0 /\ IsConnFailure(f.outs[k]))
                  => k = max_retries /\ f.result = Exc(f.outs[k].e)
            /\ (f.pc = "done" /\ k > 0 /\ ~IsConnFailure(f.outs[k])
                  /\ f.outs[k].status = 200
                  /\ (f.outs[k].body = "1" \/ f.outs[k].body = "2"))
                  => /\ f.result.exc = ""
                     /\ ~f.return_all => f.result.val = V_Tr(f.req[1].text, 1)
                     /\ f.return_all =>
                           f.result.val =
                              V_List(Candidates(f.outs[k].body, f.req[1].text))

\* Two connection failures, then a translation: returned after 3 sends.
C2_Witness ==
    \E t \in Threads :
        /\ TranslateDone(t) /\ ReversoCall(t)
        /\ frame[t].sent = 3
        /\ IsConnFailure(frame[t].outs[1]) /\ IsConnFailure(frame[t].outs[2])
        /\ frame[t].result.exc = ""

\* The retries of a ReversoTranslator.translate call are exhausted.
Exhausted(t) ==
    TranslateDone(t) /\ ReversoCall(t) /\ frame[t].result.exc \in ConnectionFailures

\* C3 as stated: the delays slept between the attempts are 1, 2, 4.
C3_DelaysOneTwoFour ==
    \A t \in Threads : Exhausted(t) => frame[t].slept = <<1, 2, 4>>

\* C3: the delays slept are 1 and then 2, one before each retry; the third
\* failure is raised without a sleep, so no delay of 4 is ever slept; when
\* the retries are exhausted the last exception propagates.
C3_DelaysOneTwo ==
    \A t \in Threads :
        LET f == frame[t] IN
        ReversoCall(t) =>
            /\ Len(f.slept) <= 2
            /\ f.slept = SubSeq(<<1, 2>>, 1, Len(f.slept))
            /\ f.pc = "post" => Len(f.slept) = f.sent
            /\ Exhausted(t) => /\ f.slept = <<1, 2>>
                               /\ f.result = Exc(f.outs[Len(f.outs)].e)

C3_Witness == \E t \in Threads : Exhausted(t) /\ frame[t].slept = <<1, 2>>

\* C4: in both adapters a first response with an HTTP error status ends the
\* call: 429 raises TooManyRequests, any other failing status RequestError
\* (with the status code in the Reverso adapter), after exactly one request
\* and no sleep; and no request ever follows a response.
C4_HttpErrorNotRetried ==
    \A t \in Threads :
        LET f == frame[t] IN
        (f.op = "translate" /\ f.outs # <<>>) =>
            /\ \A j \in 1..(Len(f.outs) - 1) : IsConnFailure(f.outs[j])
            /\ (~IsConnFailure(f.outs[1]) /\ ~IsSuccessStatus(f.outs[1].status)) =>
                  /\ f.pc = "done"
                  /\ f.sent = 1
                  /\ f.slept = <<>>
                  /\ f.outs[1].status = 429 => f.result = Exc("TooManyRequests")
                  /\ f.outs[1].status # 429 =>
                        /\ f.result.exc = "RequestError"
                        /\ ReversoCall(t) => f.result.arg = f.outs[1].status

C4_Witness ==
    /\ \E t \in Threads :
          /\ TranslateDone(t)
          /\ frame[t].outs = <<Reply(500, "1")>>
          /\ frame[t].result.exc = "RequestError"
    /\ cls[Adapter] = "ReversoTranslator"

\* A batch call (translate_batch / translate_words) of thread t has ended.
BatchDone(t) ==
    /\ frame[t].pc = "done"
    /\ (frame[t].op = "translate_batch" \/ frame[t].op = "translate_words")

\* The values translate of an adapter of class c can return for text.
ResultsFor(c, text) ==
    IF c = "GoogleTranslator"
    THEN IF text.isStr /\ len(text) <= max_chars
         THEN {V_Str(strip(text)), V_Tr(strip(text), 1)}
         ELSE {V_None}
    ELSE {V_Str(text), V_Tr(text, 1)}
            \cup { V_List(Candidates(body, text)) : body \in CandidateBodies }

\* C5: a batch call rejects an empty list before any translate call; else it
\* calls translate once per element in input order; when all calls return it
\* returns as many results as elements, the i-th being translate's result
\* for the i-th element; when a call raises, that exception is the batch's
\* outcome, no later element is translated and no partial list is returned.
C5_BatchAllOrNothing ==
    \A t \in Threads :
        LET f == frame[t]
            b == batch[t]
            c == cls[f.self]
        IN
        /\ b.state = "running" =>
              /\ b.ncalls \in 1..Len(b.items)
              /\ f.arg = b.items[b.ncalls]
              /\ b.raised = <<>>
              /\ Len(b.arr) = b.ncalls - 1
              /\ \A k \in 1..Len(b.arr) : b.arr[k] \in ResultsFor(c, b.items[k])
        /\ BatchDone(t) =>
              /\ b.items = <<>> => f.result.exc # "" /\ b.ncalls = 0
              /\ f.result.exc = "" =>
                    /\ b.ncalls = Len(b.items)
                    /\ b.raised = <<>>
                    /\ f.result.val = V_List(b.arr)
                    /\ Len(b.arr) = Len(b.items)
                    /\ \A k \in 1..Len(b.arr) :
                          b.arr[k] \in ResultsFor(c, b.items[k])
              /\ (f.result.exc # "" /\ b.items # <<>>) =>
                    /\ b.raised = <<f.result.exc>>
                    /\ Len(b.arr) = b.ncalls - 1
                    /\ f.result.val = V_None

\* A batch of two different texts, both translated by the backend.
C5_Witness ==
    \E t \in Threads :
        /\ BatchDone(t)
        /\ batch[t].items = <<T_padded, T_a>>
        /\ frame[t].result = Ret(V_List(<<V_Tr(T_b, 1), V_Tr(T_a, 1)>>))

\* l is "auto", a name or a code of registry R.
InRegistry(R, l) == l = "auto" \/ l \in DOMAIN R \/ l \in Values(R)

\* C6: resolution leaves "auto" and the registry's codes unchanged, maps a
\* registry name to its code and raises LanguageNotSupportedException for
\* anything else; resolving a resolved language returns it unchanged.
C6_ResolveIdempotent ==
    (ctor.cls # "" /\ ctor.source # "" /\ ctor.target # "") =>
        LET R == Registry(ctor.cls)
            Expected(l) == IF l = "auto" \/ l \in Values(R) THEN l ELSE R[l]
        IN
        /\ ctor.result.exc = "" <=>
              (InRegistry(R, ctor.source) /\ InRegistry(R, ctor.target))
        /\ ctor.result.exc # "" => ctor.result.exc = "LanguageNotSupportedException"
        /\ ctor.result.exc = "" =>
              /\ source[Adapter] = Expected(ctor.source)
              /\ target[Adapter] = Expected(ctor.target)
              /\ map_language_to_code(R, source[Adapter]) = Ok(source[Adapter])
              /\ map_language_to_code(R, target[Adapter]) = Ok(target[Adapter])

\* GoogleTranslator(source="french", target="en") resolved "french" to "fr".
C6_Witness ==
    /\ ctor.cls = "GoogleTranslator"
    /\ ctor.source = "french"
    /\ ctor.result.exc = ""
    /\ source[Adapter] = "fr"

\* C7: in both adapters translate of a text the validator rejects (not a
\* str, or longer than 5000 characters) raises, having sent nothing.
C7_InvalidTextRaises ==
    \A t \in Threads :
        LET f == frame[t] IN
        (TranslateDone(t) /\ ~(f.arg.isStr /\ len(f.arg) <= max_chars))
        => f.result.exc # "" /\ f.sent = 0

\* C8: the source and target of every adapter, and of every request sent,
\* are "auto" or a name or a code of the adapter's registry.
C8_LanguagesInRegistry ==
    /\ \A i \in Instances :
          /\ InRegistry(Registry(cls[i]), source[i])
          /\ InRegistry(Registry(cls[i]), target[i])
    /\ \A t \in Threads :
          frame[t].req # NoReq =>
             /\ InRegistry(Registry(cls[frame[t].self]), frame[t].req[1].from)
             /\ InRegistry(Registry(cls[frame[t].self]), frame[t].req[1].to)

\* The reply that ended a ReversoTranslator.translate call with a success
\* status and a JSON body.
LastReply(t) == frame[t].outs[Len(frame[t].outs)]
GotJson(t) ==
    /\ TranslateDone(t) /\ ReversoCall(t)
    /\ frame[t].outs # <<>>
    /\ LastReply(t).kind = "reply"
    /\ IsSuccessStatus(LastReply(t).status)
    /\ LastReply(t).body # "not-json"

C10_RequestCarriesOwnCall ==
    \A t \in Threads :
        LET f == frame[t] IN
        (f.op = "translate" /\ f.req # NoReq /\ ~f.raced) =>
            /\ f.req[1].text = f.text
            /\ f.req[1].from = source[f.self]
            /\ f.req[1].to = target[f.self]

\* A request of one call was sent carrying the text of the other call.
C10_Witness ==
    \E t \in Threads, u \in Threads :
        /\ t # u
        /\ frame[t].op = "translate" /\ frame[u].op = "translate"
        /\ frame[t].self = frame[u].self
        /\ frame[t].req # NoReq
        /\ frame[t].text # frame[u].text
        /\ frame[t].req[1].text = frame[u].text

====
